---- MODULE Spec2Model ----
(***************************************************************************)
(* Model of the vehicle_models_scraper pipeline: the retry wrapper          *)
(* (utils/helpers.py retry), session acquisition                            *)
(* (launch_browser_with_fallback), the two site scrapers (bama, divar)      *)
(* and the runners that call them one after the other.                      *)
(*                                                                          *)
(* The program is single-threaded asyncio code, so one program counter pc   *)
(* holds the position of the only task.  Every await that can fail is a     *)
(* step with the outcomes "completed" and "raised"; an operator interrupt   *)
(* (CancelledError, a BaseException) can arrive at any await.               *)
(***************************************************************************)
EXTENDS Integers, Sequences, FiniteSets, TLC

----------------------------------------------------------------------------
(* Bounds of the model *)

\* largest max_attempts given to retry() in the generic check of the wrapper
MaxAttempts == 3
\* largest delay (seconds) given to retry() in the generic check
MaxDelay == 3
\* longest page title / body text (in letters) in the exhaustive
\* classification check
MaxLen == 3
\* largest page height measure reported by document.body.scrollHeight
MaxHeight == 2
\* most cards one page yields
MaxCards == 2

----------------------------------------------------------------------------
(* config/settings.py and the scrapers' constants *)

\* Engine names are kept; phrases are abbreviated to two letters over the
\* alphabet Letters: "Cf" stands for 'Cloudflare', "jc" for 'just a moment',
\* "cj" for 'checking your browser'.
BROWSER_FALLBACK == <<"chromium", "firefox">>
CLOUDFLARE_TITLE == <<"C", "f">>
ANTI_BOT_PHRASES == << <<"j", "c">>, <<"c", "j">> >>

BAMA_MAX_ATTEMPTS == 3
BAMA_DELAY == 3
DIVAR_MAX_ATTEMPTS == 1
DIVAR_DELAY == 0
DIVAR_SCROLLS == 15
STABLE_LIMIT == 3

\* scroll_and_load: max_rounds = 50
max_rounds_off_by_one == 50 + 1
max_rounds == 50

----------------------------------------------------------------------------
(* Text: a string is a sequence of letters *)

Letters == {"c", "C", "f", "j"}

\* str.lower() on one letter
LowerChar(ch) == IF ch = "C" THEN "c" ELSE ch

\* str.lower()
Lower(s) == [i \in 1..Len(s) |-> LowerChar(s[i])]

\* Python's  p in s  for strings: p occurs in s as a contiguous slice
IsSubstring(p, s) ==
    \E off \in 0..(Len(s) - Len(p)) :
        \A k \in 1..Len(p) : s[off + k] = p[k]

\* the list [CLOUDFLARE_TITLE.lower()] + ANTI_BOT_PHRASES
TitlePhrases == <<Lower(CLOUDFLARE_TITLE)>> \o ANTI_BOT_PHRASES

\* helpers.py line 176: any(phrase in title.lower() for phrase in ...)
TitleBlocked(title) ==
    \E i \in 1..Len(TitlePhrases) : IsSubstring(TitlePhrases[i], Lower(title))

\* helpers.py line 174: body = (await page.text_content("body") or "").lower()
\* text_content may give None, modelled as the one-token text NoBody
NoBody == <<"None">>
BodyTextNoLower(raw) == IF raw = NoBody THEN <<>> ELSE raw
BodyText(raw) == IF raw = NoBody THEN <<>> ELSE Lower(raw)

\* helpers.py line 178: any(phrase in body for phrase in ANTI_BOT_PHRASES)
BodyBlocked(body) ==
    \E i \in 1..Len(ANTI_BOT_PHRASES) : IsSubstring(ANTI_BOT_PHRASES[i], body)

\* lines 173-179 applied to a document with title t and body text raw
Classify(t, raw) ==
    IF TitleBlocked(t) \/ BodyBlocked(BodyText(raw)) THEN "BLOCKED" ELSE "OK"

\* all strings over Letters of length at most n
RECURSIVE StringsUpTo(_)
StringsUpTo(n) ==
    IF n = 0 THEN {<<>>}
    ELSE LET shorter == StringsUpTo(n - 1)
         IN  shorter \cup {Append(s, ch) : s \in shorter, ch \in Letters}

----------------------------------------------------------------------------
(* State *)

VARIABLES
    runner,         \* which runner script drives the run ("none": no runner)
    todo,           \* sites the runner has still to scrape, in order
    started,        \* sites whose scrape() the runner has called, in order
    finished,       \* sites whose scrape() call has ended (returned or raised)
    pc,             \* position of the single asyncio task
    site,           \* the function wrapped by retry: "bama", "divar", "op", "lbf"
    max_attempts,   \* retry(): max_attempts of the current wrapper
    delay,          \* retry(): delay of the current wrapper
    attempt,        \* retry(): loop variable attempt
    last_exc,       \* retry(): last_exc
    exc,            \* the exception in flight ("none" when there is none)
    invocations,    \* number of times the wrapper has called func
    sleeps,         \* arguments of the asyncio.sleep calls of the wrapper
    failures,       \* exceptions func raised to the wrapper, in order
    page_space,     \* which pages the site can serve ("sample" or "all")
    eng,            \* launch_browser_with_fallback: index into BROWSER_FALLBACK
    objs,           \* browser/context/page objects per launch of this attempt
    open_browsers,  \* browsers launched and not closed by a close() call
    launched,       \* engines whose launch() this attempt has called, in order
    title,          \* launch_browser_with_fallback: title
    page_body,      \* the body text the page served (NoBody when absent)
    body,           \* launch_browser_with_fallback: body
    verdict,        \* outcome of the anti-bot checks of the current engine
    page_class,     \* what the anti-bot checks make of the document the
                    \* page shows since its most recent navigation
    lbf_result,     \* how launch_browser_with_fallback ended in this attempt
    prev_height,    \* scroll_and_load: prev_height
    stable_rounds,  \* scroll_and_load: stable_rounds
    round_num,      \* scroll rounds performed by the current reveal loop
    count,          \* divar: count measured in the last scroll round
    unchanged_run,  \* bama: consecutive rounds, up to the last one, whose
                    \* height equalled the height measured one round before
    all_data,       \* scrape(): all_data
    cards,          \* scrape(): the cards the page returned
    idx,            \* bama: number of cards the card loop has visited
    prefix,         \* save_to_csv: prefix
    save_result,    \* how the last save_to_csv call ended
    files,          \* files written so far: name -> rows
    in_try_failure  \* failure caught by the scraper's own except clause

vars == <<runner, todo, started, finished, pc, site, max_attempts, delay,
          attempt, last_exc, exc, invocations, sleeps, failures, page_space,
          eng, objs, open_browsers, launched, title, page_body, body, verdict,
          page_class,
          lbf_result, prev_height, stable_rounds, round_num, count,
          unchanged_run, all_data, cards, idx, prefix, save_result, files,
          in_try_failure>>

runnerVars == <<runner, todo, started, finished>>
retryVars == <<max_attempts, delay, attempt, last_exc, invocations, sleeps,
               failures>>
lbfVars == <<eng, objs, open_browsers, launched, title, page_body, body,
             verdict, lbf_result>>
scrollVars == <<prev_height, stable_rounds, round_num, count, unchanged_run>>
dataVars == <<all_data, cards, idx, prefix, save_result, files,
              in_try_failure>>

----------------------------------------------------------------------------
(* Records and save_to_csv *)

\* A text is a sequence of pieces: the piece " " is white space, a digit
\* is a digit, any other piece is text without white space or digits.
NoElement == <<"None">>
IsSpace(ch) == ch = " "
Digits == {"1", "5"}
IsDigit(ch) == ch \in Digits

\* str.strip() (JavaScript: trim())
RECURSIVE LStrip(_)
LStrip(t) == IF t # <<>> /\ IsSpace(t[1]) THEN LStrip(Tail(t)) ELSE t
RECURSIVE RStrip(_)
RStrip(t) ==
    IF t # <<>> /\ IsSpace(t[Len(t)])
    THEN RStrip(SubSeq(t, 1, Len(t) - 1)) ELSE t
Strip(t) == RStrip(LStrip(t))

\* x or ""  for a value that may be None
OrEmpty(t) == IF t = NoElement THEN <<>> ELSE t

\* bama_scraper.py lines 79-80: "".join(filter(str.isdigit, text))
clean_price(text) == IF text # <<>> THEN SelectSeq(text, IsDigit) ELSE <<>>

\* the negotiable sentinel (line 137, divar line 80)
NEGOTIABLE == <<"tavafoghi">>

\* model names in ascending (Python string) order; "" sorts first
Models == << <<"Peugeot", " ", "206">>, <<"Pride">> >>
ModelRank(m) ==
    IF m = <<>> THEN 0 ELSE CHOOSE i \in 1..Len(Models) : Models[i] = m

\* bama_scraper.py lines 143-152
BamaRecord(m, d, p, st) ==
    [model |-> m, year |-> "1398", mileage |-> <<"5", "0">>, description |-> d,
     price |-> p, price_status |-> st,
     source_url |-> "https://bama.ir/a", scrape_date |-> "D"]

\* divar_scraper.py lines 88-94: no year, description or price_status
DivarRecord(m, mi, p) ==
    [model |-> m, mileage |-> mi, price |-> p,
     source_url |-> "https://divar.ir/s/tehran/car", scrape_date |-> "D"]

\* line 142: if model and (price or price_status == "negotiable")
RetainedAnyModel(model, price, price_status) ==
    price # <<>> \/ price_status = "negotiable"
Retained(model, price, price_status) ==
    model # <<>> /\ (price # <<>> \/ price_status = "negotiable")

\* a bama card: whether the link element is there, the link's title
\* attribute, the text of the price and negotiable elements (NoElement when
\* absent), and whether a call on the card raises
BamaCard(l, t, pe, ne, r) ==
    [link |-> l, title |-> t, price_elem |-> pe, negotiable_elem |-> ne,
     raises |-> r]

\* lines 131-140: price and price_status of a card, <<>> when the card is
\* skipped (continue)
PriceOf(card) ==
    IF card.price_elem # NoElement
    THEN <<clean_price(card.price_elem), "fixed">>
    ELSE IF card.negotiable_elem # NoElement
         THEN <<IF clean_price(card.negotiable_elem) # <<>>
                THEN clean_price(card.negotiable_elem) ELSE NEGOTIABLE,
                "negotiable">>
         ELSE <<>>

\* line 106: the number of cards visited once the loop, having visited i of
\* the n cards, has dealt with card; an error on a card is caught inside the
\* loop (lines 157-159)
NextCardIndexAbort(card, i, n) == IF card.raises THEN n ELSE i + 1
NextCardIndex(card, i, n) == i + 1

\* lines 107-159: what one card adds to all_data
CardRecords(card) ==
    IF card.raises \/ ~card.link \/ PriceOf(card) = <<>>
    THEN <<>>
    ELSE LET model == Strip(OrEmpty(card.title))
             price == PriceOf(card)[1]
             price_status == PriceOf(card)[2]
         IN  IF Retained(model, price, price_status)
             THEN <<BamaRecord(model, <<>>, price, price_status)>>
             ELSE <<>>

\* the cards a bama page yields
BamaCards(space) ==
    IF space = "sample"
    THEN {BamaCard(TRUE, <<"Pride">>, <<"1", ",", "5">>, NoElement, FALSE),
          BamaCard(TRUE, <<"Peugeot", " ", "206">>, NoElement, <<"t">>, FALSE),
          BamaCard(TRUE, <<" ">>, <<"1", ",", "5">>, NoElement, FALSE),
          BamaCard(TRUE, <<"Pride">>, <<"1", ",", "5">>, NoElement, TRUE)}
    ELSE {BamaCard(FALSE, NoElement, NoElement, NoElement, FALSE),
          BamaCard(TRUE, <<"Pride">>, <<"1", ",", "5">>, NoElement, TRUE)}
         \cup {BamaCard(TRUE, t, pe, ne, FALSE) :
                 t \in {NoElement, <<" ">>, <<" ", "Pride", " ">>},
                 pe \in {NoElement, <<>>, <<",">>, <<"1", ",", "5">>},
                 ne \in {NoElement, <<"t">>, <<"5", "t">>}}

\* a divar card: the text of the title element (NoElement when absent) and
\* the texts of its description elements
DivarCard(t, ds) == [title |-> t, descs |-> ds]

\* divar_scraper.py lines 73-82: the map/filter of page.evaluate
DivarItem(card) ==
    IF card.title = NoElement \/ Len(card.descs) < 2
    THEN <<>>
    ELSE LET priceRaw == Strip(card.descs[2])
             digits   == SelectSeq(priceRaw, IsDigit)
         IN  <<[model |-> Strip(card.title), mileage |-> Strip(card.descs[1]),
                price |-> IF digits # <<>> THEN digits ELSE NEGOTIABLE]>>

\* lines 87-94: one record per item
RECURSIVE DivarRecords(_)
DivarRecords(cs) ==
    IF cs = <<>> THEN <<>>
    ELSE LET item == DivarItem(cs[1])
         IN  (IF item = <<>> THEN <<>>
              ELSE <<DivarRecord(item[1].model, item[1].mileage,
                                 item[1].price)>>)
             \o DivarRecords(Tail(cs))

\* the cards a divar page yields
DivarCards ==
    {DivarCard(<<"Pride">>, << <<"5", "0">>, <<"1", ",", "5">> >>),
     DivarCard(<<"Peugeot", " ", "206">>, << <<"5", "0">>, <<"t">> >>),
     DivarCard(<<" ">>, << <<"5", "0">>, <<"1", ",", "5">> >>),
     DivarCard(NoElement, << <<"5", "0">>, <<"1", ",", "5">> >>),
     DivarCard(<<"Pride">>, << <<"5", "0">> >>)}

\* the sequences of at most MaxCards cards
CardSeqs(cs) == UNION {[1..n -> cs] : n \in 0..MaxCards}

\* records save_to_csv can be given: two of them equal on the dedup key and
\* different in description
SampleRecords(s) ==
    IF s = "bama"
    THEN {BamaRecord(Models[2], <<>>, <<"1", "5">>, "fixed"),
          BamaRecord(Models[2], <<"full">>, <<"1", "5">>, "fixed"),
          BamaRecord(Models[1], <<>>, <<"1", "5">>, "fixed")}
    ELSE {DivarRecord(Models[2], <<"5", "0">>, <<"1", "5">>)}

\* the batches save_to_csv can be given: at most MaxCards records
Batches(s) ==
    UNION {[1..n -> SampleRecords(s)] : n \in 0..MaxCards}

\* save_to_csv line 74: the dedup key
DedupKeyWithDescription ==
    {"model", "year", "mileage", "description", "price", "source_url"}
DedupKey == {"model", "year", "mileage", "price", "source_url"}

\* the columns of pd.DataFrame(data)
Columns(data) == UNION {DOMAIN data[i] : i \in 1..Len(data)}

\* drop_duplicates raises KeyError when a key column is not in the frame
MissingKeyColumn(data) == \E k \in DedupKey : k \notin Columns(data)

SameKey(r1, r2) == \A k \in DedupKey : r1[k] = r2[k]

\* drop_duplicates(subset=...): keep the first row of each key
RECURSIVE DropDuplicates(_)
DropDuplicates(data) ==
    IF data = <<>> THEN <<>>
    ELSE LET n    == Len(data)
             init == DropDuplicates(SubSeq(data, 1, n - 1))
         IN  IF \E i \in 1..Len(init) : SameKey(init[i], data[n])
             THEN init
             ELSE Append(init, data[n])

\* insert row r into the rows sorted by model, after the rows not greater
RECURSIVE InsertByModel(_, _)
InsertByModel(rows, r) ==
    IF rows = <<>> THEN <<r>>
    ELSE IF ModelRank(r.model) < ModelRank(rows[1].model)
         THEN <<r>> \o rows
         ELSE <<rows[1]>> \o InsertByModel(Tail(rows), r)

\* sort_values("model")
RECURSIVE SortByModel(_)
SortByModel(rows) ==
    IF rows = <<>> THEN <<>>
    ELSE InsertByModel(SortByModel(SubSeq(rows, 1, Len(rows) - 1)),
                       rows[Len(rows)])

\* the rows save_to_csv writes (line 74)
SavedRows(data) == SortByModel(DropDuplicates(data))

Dirs == {"output", "backups"}
Prefixes == {"bama", "divar"}
FileNames == Dirs \X Prefixes
BACKUP_ENABLED == TRUE

----------------------------------------------------------------------------
(* Exceptions *)

\* CancelledError is a BaseException: no  except Exception  catches it
IsException(e) == e \notin {"none", "CancelledError"}

\* failures of the abstract wrapped operation of the generic retry check
OpExceptions == {"E1", "E2"}

----------------------------------------------------------------------------
(* Browser objects *)

NoObj == [browser |-> "none", context |-> "none", page |-> "none"]
NoObjs == [i \in 1..Len(BROWSER_FALLBACK) |-> NoObj]

\* Browser.close() also closes the browser's contexts and pages
CloseAll(o) ==
    [browser |-> "closed",
     context |-> IF o.context = "none" THEN "none" ELSE "closed",
     page    |-> IF o.page = "none" THEN "none" ELSE "closed"]

\* BrowserContext.close() also closes the context's pages
CloseContext(o) ==
    [o EXCEPT !.context = "closed",
              !.page = IF o.page = "none" THEN "none" ELSE "closed"]

----------------------------------------------------------------------------
(* Pages a site can serve *)

\* a few pages for the whole-run specification: clean, Cloudflare title,
\* challenge phrase in the body (in capitals), challenge phrase in the title
SampleTitles == {<<"f">>, <<"C", "f">>, <<"j", "C">>}
SampleBodies == {<<"f">>, <<"j", "C">>, <<"C", "f">>}

Titles(space) == IF space = "all" THEN StringsUpTo(MaxLen) ELSE SampleTitles
Bodies(space) ==
    (IF space = "all" THEN StringsUpTo(MaxLen) ELSE SampleBodies) \cup {NoBody}

----------------------------------------------------------------------------
(* Locals of one call of the wrapped function *)

LocalsReset ==
    /\ eng' = 0
    /\ objs' = NoObjs
    /\ launched' = <<>>
    /\ title' = <<>>
    /\ page_body' = NoBody
    /\ body' = <<>>
    /\ verdict' = "none"
    /\ lbf_result' = "pending"
    /\ prev_height' = 0
    /\ stable_rounds' = 0
    /\ round_num' = 0
    /\ unchanged_run' = 0
    /\ count' = 0
    /\ all_data' = <<>>
    /\ cards' = <<>>
    /\ idx' = 0
    /\ prefix' = "none"
    /\ save_result' = "none"
    /\ in_try_failure' = "none"

LocalsInit ==
    /\ eng = 0
    /\ objs = NoObjs
    /\ launched = <<>>
    /\ title = <<>>
    /\ page_body = NoBody
    /\ body = <<>>
    /\ verdict = "none"
    /\ lbf_result = "pending"
    /\ prev_height = 0
    /\ stable_rounds = 0
    /\ round_num = 0
    /\ unchanged_run = 0
    /\ count = 0
    /\ all_data = <<>>
    /\ cards = <<>>
    /\ idx = 0
    /\ prefix = "none"
    /\ save_result = "none"
    /\ in_try_failure = "none"

\* the function raises e to its caller.  Under the retry wrapper an Exception
\* lands in the wrapper's except clause; CancelledError passes through the
\* wrapper and the runner and ends the process.
FuncRaise(e) ==
    /\ exc' = e
    /\ IF site = "lbf"
       THEN pc' = "lbf_raised" /\ failures' = failures
       ELSE IF IsException(e)
            THEN pc' = "w_except" /\ failures' = Append(failures, e)
            ELSE pc' = "r_cancelled" /\ failures' = failures

----------------------------------------------------------------------------
(* utils/helpers.py: retry *)

\* the decorator arguments of the two scrapers
RetryConfig(s) ==
    IF s = "bama"
    THEN [max_attempts |-> BAMA_MAX_ATTEMPTS, delay |-> BAMA_DELAY]
    ELSE [max_attempts |-> DIVAR_MAX_ATTEMPTS, delay |-> DIVAR_DELAY]

\* line 116: asyncio.sleep(delay * attempt)
BackoffDelayConstant(d, a) == d
BackoffDelay(d, a) == d * a

\* line 115: if attempt < max_attempts
ShouldSleepAlways(a, m) == a <= m
ShouldSleep(a, m) == a < m

\* line 108: for attempt in range(1, max_attempts + 1)
HasNextAttempt(a, m) == a < m

EntryPc(s) ==
    CASE s = "bama"  -> "b_enter"
      [] s = "divar" -> "d_enter"
      [] OTHER       -> "op_run"

\* line 110: await func(*args, **kwargs)
RetryCall ==
    /\ pc = "w_call"
    /\ invocations' = invocations + 1
    /\ pc' = EntryPc(site)
    /\ LocalsReset
    /\ page_class' = "none"
    /\ UNCHANGED <<runnerVars, site, max_attempts, delay, attempt, last_exc,
                   exc, sleeps, failures, page_space, open_browsers, files>>

\* lines 111-116: except Exception as e
RetryExcept ==
    /\ pc = "w_except"
    /\ last_exc' = exc
    /\ exc' = "none"
    /\ IF ShouldSleep(attempt, max_attempts)
       THEN /\ sleeps' = Append(sleeps, BackoffDelay(delay, attempt))
            /\ pc' = "w_sleep"
       ELSE /\ sleeps' = sleeps
            /\ pc' = "w_next"
    /\ UNCHANGED <<runnerVars, site, max_attempts, delay, attempt,
                   invocations, failures, page_space, page_class,
                   lbfVars, scrollVars,
                   dataVars>>

\* line 116: the sleep is over
RetrySleepDone ==
    /\ pc = "w_sleep"
    /\ pc' = "w_next"
    /\ UNCHANGED <<runnerVars, site, retryVars, exc, page_space, page_class,
                   lbfVars,
                   scrollVars, dataVars>>

\* lines 108, 117: next iteration, or raise last_exc after the loop
RetryLoop ==
    /\ pc = "w_next"
    /\ IF HasNextAttempt(attempt, max_attempts)
       THEN /\ attempt' = attempt + 1
            /\ pc' = "w_call"
            /\ exc' = exc
       ELSE /\ attempt' = attempt
            /\ pc' = "w_raised"
            /\ exc' = last_exc
    /\ UNCHANGED <<runnerVars, site, max_attempts, delay, last_exc,
                   invocations, sleeps, failures, page_space, page_class,
                   lbfVars,
                   scrollVars, dataVars>>

\* the abstract wrapped operation of the generic check: one call either
\* returns or raises
OpAttempt ==
    /\ pc = "op_run"
    /\ \/ /\ pc' = "w_returned"
          /\ UNCHANGED <<exc, failures>>
       \/ \E e \in OpExceptions : FuncRaise(e)
    /\ UNCHANGED <<runnerVars, site, max_attempts, delay, attempt, last_exc,
                   invocations, sleeps, page_space, page_class,
                   lbfVars, scrollVars,
                   dataVars>>

----------------------------------------------------------------------------
(* utils/helpers.py: launch_browser_with_fallback *)

\* the awaits of the try block before the title is read (lines 138-172)
LbfSetup == <<"lbf_launch", "lbf_new_context", "lbf_new_page",
              "lbf_init_script", "lbf_wait", "lbf_goto">>
LbfSetupPcs == {LbfSetup[i] : i \in 1..Len(LbfSetup)}
LbfTryPcs == LbfSetupPcs \cup {"lbf_title", "lbf_body"}
LbfClosePcs == {"lbf_close_page", "lbf_close_context", "lbf_close_browser"}

LbfAfter(p) ==
    LET i == CHOOSE k \in 1..Len(LbfSetup) : LbfSetup[k] = p
    IN  IF i < Len(LbfSetup) THEN LbfSetup[i + 1] ELSE "lbf_title"

\* where the caller goes on when the function returns
LbfReturnPc == IF site = "lbf" THEN "lbf_returned" ELSE "b_check_page"

\* lines 138-172: launch, new_context, new_page, add_init_script,
\* wait_for_timeout, goto complete
LbfSetupOk ==
    /\ pc \in LbfSetupPcs
    /\ pc' = LbfAfter(pc)
    /\ objs' = CASE pc = "lbf_launch" -> [objs EXCEPT ![eng].browser = "open"]
                 [] pc = "lbf_new_context" ->
                        [objs EXCEPT ![eng].context = "open"]
                 [] pc = "lbf_new_page" -> [objs EXCEPT ![eng].page = "open"]
                 [] OTHER -> objs
    /\ open_browsers' =
           IF pc = "lbf_launch" THEN open_browsers + 1 ELSE open_browsers
    /\ launched' = IF pc = "lbf_launch"
                   THEN Append(launched, BROWSER_FALLBACK[eng])
                   ELSE launched
    /\ UNCHANGED <<runnerVars, site, retryVars, exc, page_space, page_class,
                   eng, title,
                   page_body, body, verdict, lbf_result, scrollVars, dataVars>>

\* line 173: title = await page.title()
LbfReadTitle ==
    /\ pc = "lbf_title"
    /\ \E t \in Titles(page_space) : title' = t
    /\ pc' = "lbf_body"
    /\ UNCHANGED <<runnerVars, site, retryVars, exc, page_space, page_class,
                   eng, objs,
                   open_browsers, launched, page_body, body, verdict,
                   lbf_result, scrollVars, dataVars>>

\* line 174: body = (await page.text_content("body") or "").lower()
LbfReadBody ==
    /\ pc = "lbf_body"
    /\ \E raw \in Bodies(page_space) :
          /\ page_body' = raw
          /\ body' = BodyText(raw)
    /\ pc' = "lbf_check"
    /\ UNCHANGED <<runnerVars, site, retryVars, exc, page_space, page_class,
                   eng, objs,
                   open_browsers, launched, title, verdict, lbf_result,
                   scrollVars, dataVars>>

\* lines 176-182: raise PWTimeout on an anti-bot phrase (caught by the except
\* clause of line 184), else return page, context
LbfCheck ==
    /\ pc = "lbf_check"
    /\ page_class' = Classify(title, page_body)
    /\ IF TitleBlocked(title) \/ BodyBlocked(body)
       THEN /\ verdict' = "BLOCKED"
            /\ pc' = "lbf_close_page"
            /\ lbf_result' = lbf_result
       ELSE /\ verdict' = "OK"
            /\ pc' = LbfReturnPc
            /\ lbf_result' = "session"
    /\ UNCHANGED <<runnerVars, site, retryVars, exc, page_space, eng, objs,
                   open_browsers, launched, title, page_body, body,
                   scrollVars, dataVars>>

\* line 184: an await of the try block raises an Exception
LbfTryRaise ==
    /\ pc \in LbfTryPcs
    /\ pc' = "lbf_close_page"
    /\ launched' = IF pc = "lbf_launch"
                   THEN Append(launched, BROWSER_FALLBACK[eng])
                   ELSE launched
    /\ UNCHANGED <<runnerVars, site, retryVars, exc, page_space, page_class,
                   eng, objs,
                   open_browsers, title, page_body, body, verdict,
                   lbf_result, scrollVars, dataVars>>

\* line 186: if page: await page.close().  A close() that raises is not
\* caught: the exception leaves the function.
LbfClosePage ==
    /\ pc = "lbf_close_page"
    /\ IF objs[eng].page = "none"
       THEN /\ pc' = "lbf_close_context"
            /\ UNCHANGED <<objs, exc, failures, lbf_result>>
       ELSE \/ /\ objs' = [objs EXCEPT ![eng].page = "closed"]
               /\ pc' = "lbf_close_context"
               /\ UNCHANGED <<exc, failures, lbf_result>>
            \/ /\ FuncRaise("CloseError")
               /\ lbf_result' = "raised"
               /\ objs' = objs
    /\ UNCHANGED <<runnerVars, site, max_attempts, delay, attempt, last_exc,
                   invocations, sleeps, page_space, page_class,
                   eng, open_browsers,
                   launched, title, page_body, body, verdict, scrollVars,
                   dataVars>>

\* line 187: if context: await context.close()
LbfCloseContext ==
    /\ pc = "lbf_close_context"
    /\ IF objs[eng].context = "none"
       THEN /\ pc' = "lbf_close_browser"
            /\ UNCHANGED <<objs, exc, failures, lbf_result>>
       ELSE \/ /\ objs' = [objs EXCEPT ![eng] = CloseContext(objs[eng])]
               /\ pc' = "lbf_close_browser"
               /\ UNCHANGED <<exc, failures, lbf_result>>
            \/ /\ FuncRaise("CloseError")
               /\ lbf_result' = "raised"
               /\ objs' = objs
    /\ UNCHANGED <<runnerVars, site, max_attempts, delay, attempt, last_exc,
                   invocations, sleeps, page_space, page_class,
                   eng, open_browsers,
                   launched, title, page_body, body, verdict, scrollVars,
                   dataVars>>

\* line 188: if browser: await browser.close()
LbfCloseBrowser ==
    /\ pc = "lbf_close_browser"
    /\ IF objs[eng].browser = "none"
       THEN /\ pc' = "lbf_next"
            /\ UNCHANGED <<objs, open_browsers, exc, failures, lbf_result>>
       ELSE \/ /\ objs' = [objs EXCEPT ![eng] = CloseAll(objs[eng])]
               /\ open_browsers' = open_browsers - 1
               /\ pc' = "lbf_next"
               /\ UNCHANGED <<exc, failures, lbf_result>>
            \/ /\ FuncRaise("CloseError")
               /\ lbf_result' = "raised"
               /\ UNCHANGED <<objs, open_browsers>>
    /\ UNCHANGED <<runnerVars, site, max_attempts, delay, attempt, last_exc,
                   invocations, sleeps, page_space, page_class,
                   eng, launched, title,
                   page_body, body, verdict, scrollVars, dataVars>>

\* lines 131-134, 190-191: the next engine, or return None, None
LbfNext ==
    /\ pc = "lbf_next"
    /\ IF eng < Len(BROWSER_FALLBACK)
       THEN /\ eng' = eng + 1
            /\ pc' = "lbf_launch"
            /\ lbf_result' = lbf_result
       ELSE /\ eng' = eng
            /\ pc' = LbfReturnPc
            /\ lbf_result' = "nosession"
    \* title and body are dead here: both are assigned again before use
    /\ title' = <<>>
    /\ page_body' = NoBody
    /\ body' = <<>>
    /\ verdict' = "none"
    \* the page of the engine that failed is gone
    /\ page_class' = "none"
    /\ UNCHANGED <<runnerVars, site, retryVars, exc, page_space, objs,
                   open_browsers, launched, scrollVars, dataVars>>

----------------------------------------------------------------------------
(* utils/helpers.py: save_to_csv, as called by the scrapers *)

SavePcs == {"b_save", "d_save", "s_save"}
FinallyPc == IF site = "bama" THEN "b_finally" ELSE "d_finally"

\* where save_to_csv returns to: the scraper's try block, or the caller of
\* the function taken alone
SaveReturnPc == IF site = "save" THEN "s_call" ELSE FinallyPc

\* lines 79 and 90: the files an undisturbed call writes
WritesOnlyPrimary(f, pre) == f = <<"output", pre>>
Writes(f, pre) ==
    f[2] = pre /\ (f[1] = "output" \/ (BACKUP_ENABLED /\ f[1] = "backups"))

\* line 69: if not data
IsEmptyBatchNever(data) == FALSE
IsEmptyBatch(data) == data = <<>>

\* to_csv(filepath): the file is replaced by the rows of the frame
WriteAppending(old, rows) == old \o rows
Write(old, rows) == rows

\* lines 68-93.  In the scrapers the call sits inside the try block, so a
\* failure lands in the scraper's  except Exception  (logged, not re-raised).
SaveToCsv ==
    /\ pc \in SavePcs
    /\ pc' = SaveReturnPc
    /\ IF IsEmptyBatch(all_data)
       THEN \* lines 69-71: warning, return None
            /\ save_result' = "None"
            /\ in_try_failure' = in_try_failure
            /\ files' = files
       ELSE IF MissingKeyColumn(all_data)
       THEN \* line 74: KeyError from drop_duplicates
            /\ save_result' = "raised"
            /\ in_try_failure' = "KeyError"
            /\ files' = files
       ELSE \/ \* line 78/79: the primary file cannot be written
               /\ save_result' = "raised"
               /\ in_try_failure' = "OSError"
               /\ files' = files
            \/ \* line 90: the primary file is written, the backup fails
               /\ BACKUP_ENABLED
               /\ save_result' = "raised"
               /\ in_try_failure' = "OSError"
               /\ files' = [files EXCEPT ![<<"output", prefix>>] =
                              Write(@, SavedRows(all_data))]
            \/ \* line 93: both files are written, return filepath
               /\ save_result' = "filepath"
               /\ in_try_failure' = in_try_failure
               /\ files' = [f \in FileNames |->
                              IF Writes(f, prefix)
                              THEN Write(files[f], SavedRows(all_data))
                              ELSE files[f]]
    /\ UNCHANGED <<runnerVars, site, retryVars, exc, page_space, page_class,
                   lbfVars,
                   scrollVars, all_data, cards, idx, prefix>>

\* a caller of save_to_csv taken alone: any batch, any prefix
SaveCall ==
    /\ pc = "s_call"
    /\ pc' = "s_save"
    /\ \E s \in Prefixes : \E batch \in Batches(s) : all_data' = batch
    /\ \E pre \in Prefixes : prefix' = pre
    /\ save_result' = "none"
    /\ in_try_failure' = "none"
    /\ UNCHANGED <<runnerVars, site, retryVars, exc, page_space, page_class,
                   lbfVars,
                   scrollVars, cards, idx, files>>

----------------------------------------------------------------------------
(* scrapers/bama_scraper.py *)

\* line 91: async with async_playwright() as p
BamaEnter ==
    /\ pc = "b_enter"
    /\ \/ /\ pc' = "lbf_launch"
          /\ eng' = 1
          /\ UNCHANGED <<exc, failures>>
       \/ /\ FuncRaise("PlaywrightError")
          /\ eng' = eng
    /\ UNCHANGED <<runnerVars, site, max_attempts, delay, attempt, last_exc,
                   invocations, sleeps, page_space, page_class,
                   objs, open_browsers,
                   launched, title, page_body, body, verdict, lbf_result,
                   scrollVars, dataVars>>

\* lines 93-95: if not page: log and return
BamaCheckPage ==
    /\ pc = "b_check_page"
    /\ pc' = IF lbf_result = "nosession" THEN "w_returned" ELSE "b_goto"
    \* the callee's locals title and body are gone
    /\ title' = <<>>
    /\ page_body' = NoBody
    /\ body' = <<>>
    /\ verdict' = "none"
    /\ UNCHANGED <<runnerVars, site, retryVars, exc, page_space, page_class,
                   eng, objs,
                   open_browsers, launched, lbf_result, scrollVars, dataVars>>

\* line 99: await page.goto(BAMA_URL, ...) completes
BamaGoto ==
    /\ pc = "b_goto"
    /\ pc' = "b_scroll"
    \* the document served this time is not looked at
    /\ \E t \in Titles(page_space), raw \in Bodies(page_space) :
          page_class' = Classify(t, raw)
    /\ UNCHANGED <<runnerVars, site, retryVars, exc, page_space, lbfVars,
                   scrollVars, dataVars>>

\* scroll_and_load lines 67-73: stable_rounds after a round measuring cur
NextStableNoReset(cur, prev, stable) == IF cur = prev THEN stable + 1 ELSE stable
NextStable(cur, prev, stable) == IF cur = prev THEN stable + 1 ELSE 0

\* scroll_and_load lines 60-74: one round measuring height cur_height
BamaScrollRound ==
    /\ pc = "b_scroll"
    /\ round_num < max_rounds
    /\ round_num' = round_num + 1
    /\ \E cur_height \in 0..MaxHeight :
          /\ stable_rounds' = NextStable(cur_height, prev_height, stable_rounds)
          \* line 71: break leaves prev_height as it is (equal to cur_height)
          /\ prev_height' = cur_height
          /\ pc' = IF cur_height = prev_height
                      /\ stable_rounds' >= STABLE_LIMIT
                   THEN "b_query" ELSE "b_scroll"
          \* the first round has no measurement before it
          /\ unchanged_run' = IF round_num >= 1 /\ cur_height = prev_height
                              THEN unchanged_run + 1 ELSE 0
    /\ UNCHANGED <<runnerVars, site, retryVars, exc, page_space, page_class,
                   lbfVars,
                   count, dataVars>>

\* scroll_and_load line 60: the range is exhausted
BamaScrollExhausted ==
    /\ pc = "b_scroll"
    /\ round_num >= max_rounds
    /\ pc' = "b_query"
    /\ UNCHANGED <<runnerVars, site, retryVars, exc, page_space, page_class,
                   lbfVars,
                   scrollVars, dataVars>>

\* line 103: cards = await page.query_selector_all(AD_CARD_SELECTOR)
BamaQuery ==
    /\ pc = "b_query"
    /\ pc' = "b_extract"
    /\ \E cs \in CardSeqs(BamaCards(page_space)) : cards' = cs
    /\ idx' = 0
    \* the locals of scroll_and_load are gone
    /\ prev_height' = 0
    /\ stable_rounds' = 0
    /\ round_num' = 0
    /\ unchanged_run' = 0
    /\ UNCHANGED <<runnerVars, site, retryVars, exc, page_space, page_class,
                   lbfVars,
                   count, all_data, prefix, save_result, files,
                   in_try_failure>>

\* lines 106-159: one iteration of the card loop
BamaExtract ==
    /\ pc = "b_extract"
    /\ idx < Len(cards)
    /\ all_data' = all_data \o CardRecords(cards[idx + 1])
    /\ idx' = NextCardIndex(cards[idx + 1], idx, Len(cards))
    /\ UNCHANGED <<runnerVars, pc, site, retryVars, exc, page_space, page_class,
                   lbfVars,
                   scrollVars, cards, prefix, save_result, files,
                   in_try_failure>>

\* lines 161-165: the loop is over; save_to_csv(all_data, "bama") only if
\* all_data is not empty
BamaExtractDone ==
    /\ pc = "b_extract"
    /\ idx >= Len(cards)
    /\ IF all_data # <<>>
       THEN pc' = "b_save" /\ prefix' = "bama"
       ELSE pc' = "b_finally" /\ prefix' = prefix
    /\ cards' = <<>>
    /\ idx' = 0
    \* the page is not read again
    /\ page_class' = "none"
    /\ UNCHANGED <<runnerVars, site, retryVars, exc, page_space, lbfVars,
                   scrollVars, all_data, save_result, files, in_try_failure>>

\* the awaits of bama's try block that can raise
BamaTryPcs == {"b_goto", "b_scroll", "b_query"}

\* lines 167-168: except Exception: logged, not re-raised
BamaTryRaise ==
    /\ pc \in BamaTryPcs
    /\ in_try_failure' = IF pc = "b_goto" THEN "PWTimeout" ELSE "PlaywrightError"
    /\ pc' = "b_finally"
    /\ page_class' = "none"
    /\ prev_height' = 0
    /\ stable_rounds' = 0
    /\ round_num' = 0
    /\ unchanged_run' = 0
    /\ UNCHANGED <<runnerVars, site, retryVars, exc, page_space, lbfVars,
                   count, all_data, cards, idx, prefix, save_result, files>>

\* lines 169-171: finally: await context.browser.close(), then the function
\* returns (or the pending CancelledError goes on); a close() that raises
\* leaves the function
BamaFinally ==
    /\ pc = "b_finally"
    /\ \/ /\ objs' = [objs EXCEPT ![eng] = CloseAll(objs[eng])]
          /\ open_browsers' = open_browsers - 1
          /\ pc' = IF exc = "CancelledError" THEN "r_cancelled" ELSE "w_returned"
          /\ UNCHANGED <<exc, failures>>
       \/ /\ FuncRaise("CloseError")
          /\ UNCHANGED <<objs, open_browsers>>
    /\ UNCHANGED <<runnerVars, site, max_attempts, delay, attempt, last_exc,
                   invocations, sleeps, page_space, page_class,
                   eng, launched, title,
                   page_body, body, verdict, lbf_result, scrollVars, dataVars>>

----------------------------------------------------------------------------
(* scrapers/divar_scraper.py *)

\* line 30: async with async_playwright() as p
DivarEnter ==
    /\ pc = "d_enter"
    /\ \/ /\ pc' = "d_launch"
          /\ eng' = 1
          /\ UNCHANGED <<exc, failures>>
       \/ /\ FuncRaise("PlaywrightError")
          /\ eng' = eng
    /\ UNCHANGED <<runnerVars, site, max_attempts, delay, attempt, last_exc,
                   invocations, sleeps, page_space, page_class,
                   objs, open_browsers,
                   launched, title, page_body, body, verdict, lbf_result,
                   scrollVars, dataVars>>

\* lines 31-52, before the try block: launch, new_context, new_page,
\* add_init_script
DivarSetup == <<"d_launch", "d_new_context", "d_new_page", "d_init_script">>
DivarSetupPcs == {DivarSetup[i] : i \in 1..Len(DivarSetup)}

DivarSetupAfter(p) ==
    LET i == CHOOSE k \in 1..Len(DivarSetup) : DivarSetup[k] = p
    IN  IF i < Len(DivarSetup) THEN DivarSetup[i + 1] ELSE "d_goto"

DivarSetupOk ==
    /\ pc \in DivarSetupPcs
    /\ pc' = DivarSetupAfter(pc)
    /\ objs' = CASE pc = "d_launch" -> [objs EXCEPT ![eng].browser = "open"]
                 [] pc = "d_new_context" ->
                        [objs EXCEPT ![eng].context = "open"]
                 [] pc = "d_new_page" -> [objs EXCEPT ![eng].page = "open"]
                 [] OTHER -> objs
    /\ open_browsers' =
           IF pc = "d_launch" THEN open_browsers + 1 ELSE open_browsers
    /\ launched' = IF pc = "d_launch" THEN Append(launched, "chromium")
                   ELSE launched
    /\ UNCHANGED <<runnerVars, site, retryVars, exc, page_space, page_class,
                   eng, title,
                   page_body, body, verdict, lbf_result, scrollVars, dataVars>>

\* a failure in lines 31-52 is outside the try/finally: it leaves scrape()
\* without browser.close()
DivarSetupRaise ==
    /\ pc \in DivarSetupPcs
    /\ FuncRaise("PlaywrightError")
    /\ UNCHANGED <<runnerVars, site, max_attempts, delay, attempt, last_exc,
                   invocations, sleeps, page_space, page_class,
                   lbfVars, scrollVars,
                   dataVars>>

\* lines 56-60: goto, human_delay, wait_for_selector complete
DivarOpen == <<"d_goto", "d_delay", "d_wait_selector">>
DivarOpenPcs == {DivarOpen[i] : i \in 1..Len(DivarOpen)}

DivarOpenAfter(p) ==
    LET i == CHOOSE k \in 1..Len(DivarOpen) : DivarOpen[k] = p
    IN  IF i < Len(DivarOpen) THEN DivarOpen[i + 1] ELSE "d_scroll"

DivarOpenOk ==
    /\ pc \in DivarOpenPcs
    /\ pc' = DivarOpenAfter(pc)
    /\ UNCHANGED <<runnerVars, site, retryVars, exc, page_space, page_class,
                   lbfVars,
                   scrollVars, dataVars>>

\* lines 64-68: one scroll round measuring c cards
DivarScrollRound ==
    /\ pc = "d_scroll"
    /\ round_num < DIVAR_SCROLLS
    /\ round_num' = round_num + 1
    /\ \E c \in 0..MaxHeight : count' = c
    /\ pc' = "d_scroll"
    /\ UNCHANGED <<runnerVars, site, retryVars, exc, page_space, page_class,
                   lbfVars,
                   prev_height, stable_rounds, unchanged_run,
                   dataVars>>

\* line 64: range(15) is exhausted
DivarScrollExhausted ==
    /\ pc = "d_scroll"
    /\ round_num >= DIVAR_SCROLLS
    /\ pc' = "d_extract"
    /\ UNCHANGED <<runnerVars, site, retryVars, exc, page_space, page_class,
                   lbfVars,
                   scrollVars, dataVars>>

\* lines 71-100: page.evaluate returns the items of the cards, all_data is
\* built from them; save_to_csv(all_data, "divar") only if it is not empty
DivarExtract ==
    /\ pc = "d_extract"
    /\ \E cs \in CardSeqs(DivarCards) :
          /\ all_data' = all_data \o DivarRecords(cs)
          /\ IF DivarRecords(cs) # <<>>
             THEN pc' = "d_save" /\ prefix' = "divar"
             ELSE pc' = "d_finally" /\ prefix' = prefix
    \* the loop variable and count are not used again
    /\ round_num' = 0
    /\ count' = 0
    /\ UNCHANGED <<runnerVars, site, retryVars, exc, page_space, page_class,
                   lbfVars,
                   prev_height, stable_rounds, unchanged_run, cards, idx,
                   save_result, files, in_try_failure>>

\* the awaits of divar's try block that can raise
DivarTryPcs == {"d_goto", "d_wait_selector", "d_scroll", "d_extract"}

\* lines 102-103: except Exception: logged, not re-raised
DivarTryRaise ==
    /\ pc \in DivarTryPcs
    /\ in_try_failure' = IF pc \in {"d_goto", "d_wait_selector"}
                         THEN "PWTimeout" ELSE "PlaywrightError"
    /\ pc' = "d_finally"
    /\ round_num' = 0
    /\ count' = 0
    /\ UNCHANGED <<runnerVars, site, retryVars, exc, page_space, page_class,
                   lbfVars,
                   prev_height, stable_rounds, unchanged_run,
                   all_data, cards, idx, prefix, save_result, files>>

\* lines 104-105: finally: await browser.close()
DivarFinally ==
    /\ pc = "d_finally"
    /\ \/ /\ objs' = [objs EXCEPT ![eng] = CloseAll(objs[eng])]
          /\ open_browsers' = open_browsers - 1
          /\ pc' = IF exc = "CancelledError" THEN "r_cancelled" ELSE "w_returned"
          /\ UNCHANGED <<exc, failures>>
       \/ /\ FuncRaise("CloseError")
          /\ UNCHANGED <<objs, open_browsers>>
    /\ UNCHANGED <<runnerVars, site, max_attempts, delay, attempt, last_exc,
                   invocations, sleeps, page_space, page_class,
                   eng, launched, title,
                   page_body, body, verdict, lbf_result, scrollVars, dataVars>>

----------------------------------------------------------------------------
(* Operator interrupt: the task is cancelled at an await *)

\* awaits covered by a try/finally of a scraper
GuardedAwaitPcs == BamaTryPcs \cup {"b_extract"} \cup DivarTryPcs \cup {"d_delay"}

\* awaits not covered by any finally
BareAwaitPcs ==
    {"op_run", "w_sleep", "b_enter", "d_enter"} \cup LbfTryPcs \cup LbfClosePcs
        \cup DivarSetupPcs

\* CancelledError inside a scraper's try block: the finally clause runs
InterruptInTry ==
    /\ pc \in GuardedAwaitPcs
    /\ exc' = "CancelledError"
    /\ pc' = FinallyPc
    /\ page_class' = "none"
    /\ prev_height' = 0
    /\ stable_rounds' = 0
    /\ round_num' = 0
    /\ unchanged_run' = 0
    /\ count' = 0
    \* the locals of the card loop are gone
    /\ cards' = <<>>
    /\ idx' = 0
    /\ UNCHANGED <<runnerVars, site, retryVars, page_space, lbfVars,
                   all_data, prefix, save_result, files, in_try_failure>>

\* CancelledError anywhere else, or during the close() of a finally clause:
\* nothing catches it and the call stack unwinds
InterruptBare ==
    /\ \/ pc \in BareAwaitPcs
       \/ pc \in {"b_finally", "d_finally"} /\ exc = "none"
    /\ lbf_result' = IF pc \in LbfTryPcs \cup LbfClosePcs
                     THEN "cancelled" ELSE lbf_result
    /\ FuncRaise("CancelledError")
    /\ UNCHANGED <<runnerVars, site, max_attempts, delay, attempt, last_exc,
                   invocations, sleeps, page_space, page_class,
                   eng, objs, open_browsers,
                   launched, title, page_body, body, verdict, scrollVars,
                   dataVars>>

----------------------------------------------------------------------------
(* The runners: run_all.py main, scheduler.py daily_job, cli_menu.py run_all *)

Runners == {"run_all", "scheduler", "cli_menu"}

\* every runner scrapes bama, then divar
SCRAPERS == <<"bama", "divar">>

\* await scrape_bama() / await scrape_divar() / await mod.scrape(): enters
\* the retry wrapper (helpers.py lines 106-108)
RunnerCall ==
    /\ pc = "r_next"
    /\ todo # <<>>
    /\ site' = Head(todo)
    /\ todo' = Tail(todo)
    /\ started' = Append(started, Head(todo))
    /\ max_attempts' = RetryConfig(Head(todo)).max_attempts
    /\ delay' = RetryConfig(Head(todo)).delay
    /\ attempt' = 1
    /\ last_exc' = "none"
    /\ invocations' = 0
    /\ sleeps' = <<>>
    /\ failures' = <<>>
    /\ pc' = "w_call"
    /\ UNCHANGED <<runner, finished, exc, page_space, page_class,
                   lbfVars, scrollVars,
                   dataVars>>

\* all scrapers have been called
RunnerDone ==
    /\ pc = "r_next"
    /\ todo = <<>>
    /\ pc' = "r_done"
    /\ UNCHANGED <<runnerVars, site, retryVars, exc, page_space, page_class,
                   lbfVars,
                   scrollVars, dataVars>>

\* scrape() returned to the runner
RunnerReturn ==
    /\ pc = "w_returned"
    /\ runner \in Runners
    /\ finished' = finished \cup {site}
    /\ pc' = "r_next"
    /\ UNCHANGED <<runner, todo, started, site, retryVars, exc, page_space, page_class,
                   lbfVars, scrollVars, dataVars>>

\* scrape() raised: cli_menu.run_scraper catches and prints (lines 46-47),
\* run_all.main and scheduler.daily_job let it through
RunnerRaise ==
    /\ pc = "w_raised"
    /\ runner \in Runners
    /\ finished' = finished \cup {site}
    /\ IF runner = "cli_menu"
       THEN pc' = "r_next" /\ exc' = "none"
       ELSE pc' = "r_aborted" /\ exc' = exc
    /\ UNCHANGED <<runner, todo, started, site, retryVars, page_space, page_class,
                   lbfVars, scrollVars, dataVars>>

----------------------------------------------------------------------------
(* Specifications *)

NoFiles == [f \in FileNames |-> <<>>]

\* a whole run of one of the runners
Init ==
    /\ runner \in Runners
    /\ todo = SCRAPERS
    /\ started = <<>>
    /\ finished = {}
    /\ pc = "r_next"
    /\ site = "none"
    /\ max_attempts = 0
    /\ delay = 0
    /\ attempt = 0
    /\ last_exc = "none"
    /\ exc = "none"
    /\ invocations = 0
    /\ sleeps = <<>>
    /\ failures = <<>>
    /\ page_space = "sample"
    /\ page_class = "none"
    /\ open_browsers = 0
    /\ files = NoFiles
    /\ LocalsInit

RetryActions == RetryCall \/ RetryExcept \/ RetrySleepDone \/ RetryLoop

LbfActions ==
    \/ LbfSetupOk \/ LbfReadTitle \/ LbfReadBody \/ LbfCheck \/ LbfTryRaise
    \/ LbfClosePage \/ LbfCloseContext \/ LbfCloseBrowser \/ LbfNext

BamaActions ==
    \/ BamaEnter \/ BamaCheckPage \/ BamaGoto \/ BamaScrollRound
    \/ BamaScrollExhausted \/ BamaQuery \/ BamaExtract \/ BamaExtractDone
    \/ BamaTryRaise
    \/ BamaFinally

DivarActions ==
    \/ DivarEnter \/ DivarSetupOk \/ DivarSetupRaise \/ DivarOpenOk
    \/ DivarScrollRound \/ DivarScrollExhausted \/ DivarExtract
    \/ DivarTryRaise \/ DivarFinally

RunnerActions == RunnerCall \/ RunnerDone \/ RunnerReturn \/ RunnerRaise

Next ==
    \/ RunnerActions \/ RetryActions \/ LbfActions \/ BamaActions
    \/ DivarActions \/ SaveToCsv \/ InterruptInTry \/ InterruptBare

Spec == Init /\ [][Next]_vars

\* the wrapper alone, around an abstract operation, for every max_attempts
\* and delay within the bounds
InitRetry ==
    /\ runner = "none"
    /\ todo = <<>>
    /\ started = <<>>
    /\ finished = {}
    /\ pc = "w_call"
    /\ site = "op"
    /\ max_attempts \in 1..MaxAttempts
    /\ delay \in 0..MaxDelay
    /\ attempt = 1
    /\ last_exc = "none"
    /\ exc = "none"
    /\ invocations = 0
    /\ sleeps = <<>>
    /\ failures = <<>>
    /\ page_space = "sample"
    /\ page_class = "none"
    /\ open_browsers = 0
    /\ files = NoFiles
    /\ LocalsInit

NextRetry == RetryActions \/ OpAttempt \/ InterruptBare

SpecRetry == InitRetry /\ [][NextRetry]_vars

\* launch_browser_with_fallback alone, the site serving every title and
\* body within the bounds
InitAcquire ==
    /\ runner = "none"
    /\ todo = <<>>
    /\ started = <<>>
    /\ finished = {}
    /\ pc = "lbf_launch"
    /\ site = "lbf"
    /\ max_attempts = 0
    /\ delay = 0
    /\ attempt = 0
    /\ last_exc = "none"
    /\ exc = "none"
    /\ invocations = 0
    /\ sleeps = <<>>
    /\ failures = <<>>
    /\ page_space = "all"
    /\ page_class = "none"
    /\ eng = 1
    /\ objs = NoObjs
    /\ launched = <<>>
    /\ title = <<>>
    /\ page_body = NoBody
    /\ body = <<>>
    /\ verdict = "none"
    /\ lbf_result = "pending"
    /\ prev_height = 0
    /\ stable_rounds = 0
    /\ round_num = 0
    /\ unchanged_run = 0
    /\ count = 0
    /\ all_data = <<>>
    /\ cards = <<>>
    /\ idx = 0
    /\ prefix = "none"
    /\ save_result = "none"
    /\ in_try_failure = "none"
    /\ open_browsers = 0
    /\ files = NoFiles

NextAcquire == LbfActions \/ InterruptBare

SpecAcquire == InitAcquire /\ [][NextAcquire]_vars

\* the card loop of bama's scrape alone, for every sequence of cards within
\* the bounds
InitExtract ==
    /\ runner = "none"
    /\ todo = <<>>
    /\ started = <<>>
    /\ finished = {}
    /\ pc = "b_query"
    /\ site = "bama"
    /\ max_attempts = BAMA_MAX_ATTEMPTS
    /\ delay = BAMA_DELAY
    /\ attempt = 1
    /\ last_exc = "none"
    /\ exc = "none"
    /\ invocations = 1
    /\ sleeps = <<>>
    /\ failures = <<>>
    /\ page_space = "all"
    /\ page_class = "none"
    /\ open_browsers = 0
    /\ files = NoFiles
    /\ LocalsInit

NextExtract == BamaQuery \/ BamaExtract \/ BamaExtractDone

SpecExtract == InitExtract /\ [][NextExtract]_vars

\* save_to_csv alone, called again and again on the same day
InitSave ==
    /\ runner = "none"
    /\ todo = <<>>
    /\ started = <<>>
    /\ finished = {}
    /\ pc = "s_call"
    /\ site = "save"
    /\ max_attempts = 0
    /\ delay = 0
    /\ attempt = 0
    /\ last_exc = "none"
    /\ exc = "none"
    /\ invocations = 0
    /\ sleeps = <<>>
    /\ failures = <<>>
    /\ page_space = "sample"
    /\ page_class = "none"
    /\ open_browsers = 0
    /\ files = NoFiles
    /\ LocalsInit

NextSave == SaveCall \/ SaveToCsv

SpecSave == InitSave /\ [][NextSave]_vars

----------------------------------------------------------------------------
(* Properties of the retry wrapper (checked under SpecRetry) *)

\* C1: when the wrapped operation fails k times and then succeeds, with
\* k < max_attempts, the call returns, the operation was invoked exactly k+1
\* times, and the pause after the i-th failed attempt was delay*i (so the
\* pauses strictly increase whenever delay is positive).
C1_RetrySucceedsAfterFailures ==
    (pc = "w_returned" /\ site = "op") =>
        LET k == Len(failures)
        IN  /\ k < max_attempts
            /\ invocations = k + 1
            /\ Len(sleeps) = k
            /\ \A i \in 1..k : sleeps[i] = delay * i
            /\ delay > 0 => \A i \in 1..(k - 1) : sleeps[i] < sleeps[i + 1]
            /\ exc = "none"

\* two failures, then success, with max_attempts = 3: three invocations and
\* the pauses delay*1, delay*2
C1_Witness ==
    /\ pc = "w_returned"
    /\ site = "op"
    /\ max_attempts = 3
    /\ delay = 3
    /\ Len(failures) = 2
    /\ invocations = 3
    /\ sleeps = <<3, 6>>

\* C2: when every attempt fails, the operation is invoked exactly
\* max_attempts times, no pause follows the final attempt, and the call ends
\* by raising the failure of the final attempt (it never returns); with
\* max_attempts = 1 there is one invocation and no pause at all.
C2_RetryExhausted ==
    site = "op" =>
        /\ invocations <= max_attempts
        /\ Len(failures) = max_attempts =>
               /\ pc \in {"w_except", "w_next", "w_raised"}
               /\ invocations = max_attempts
               /\ Len(sleeps) = max_attempts - 1
        /\ pc = "w_raised" =>
               /\ Len(failures) = max_attempts
               /\ exc = failures[max_attempts]
        /\ max_attempts = 1 => sleeps = <<>>

\* three failures with max_attempts = 3: the third failure is the one raised
C2_Witness ==
    /\ pc = "w_raised"
    /\ site = "op"
    /\ max_attempts = 3
    /\ failures = <<"E1", "E1", "E2">>
    /\ exc = "E2"
    /\ Len(sleeps) = 2

----------------------------------------------------------------------------
(* Properties of the bama scrape under the retry wrapper (checked under Spec) *)

\* C3: in the bama scrape a failure raised inside the attempt after the
\* session was acquired (navigation, reveal, card query, save_to_csv) reaches
\* the retry wrapper as a failed attempt: an attempt in which such a failure
\* occurred never ends by returning normally to the wrapper.
C3_BamaFailureReachesRetry ==
    (site = "bama" /\ pc = "w_returned") => in_try_failure = "none"

\* C4: a bama attempt that received the 'no session' sentinel (None, None)
\* counts as a failed attempt for the retry wrapper: it never ends by
\* returning normally to the wrapper.
C4_NoSessionIsFailedAttempt ==
    /\ (site = "bama" /\ pc = "w_returned") => lbf_result # "nosession"
    /\ lbf_result = "nosession" => eng = Len(BROWSER_FALLBACK)

----------------------------------------------------------------------------
(* Properties of session acquisition *)

AllReleased(o) ==
    /\ o.browser \in {"none", "closed"}
    /\ o.context \in {"none", "closed"}
    /\ o.page \in {"none", "closed"}

InAcquisition == site \in {"bama", "lbf"}

\* C5: the engines are tried strictly in the configured order; the objects of
\* an engine that failed or was blocked are all closed before the next engine
\* is launched; the sentinel is returned only after every engine was tried;
\* no exception reaches the caller; and when an engine succeeds no later
\* engine is launched and its page, context and browser are handed over open.
C5_FallbackInOrderWithCleanup ==
    InAcquisition =>
        /\ launched = SubSeq(BROWSER_FALLBACK, 1, Len(launched))
        /\ \A i \in 1..Len(BROWSER_FALLBACK) :
               (i < eng) => AllReleased(objs[i])
        /\ lbf_result = "nosession" => eng = Len(BROWSER_FALLBACK)
        /\ lbf_result # "raised"
        /\ (lbf_result = "session" /\ pc = LbfReturnPc) =>
               /\ Len(launched) = eng
               /\ objs[eng] = [browser |-> "open", context |-> "open",
                               page |-> "open"]

\* number of objects of launch i still open
OpenObjects(i) ==
    Cardinality({k \in {"browser", "context", "page"} : objs[i][k] = "open"})

\* C6: during the cleanup of a failed or blocked engine a close() that raises
\* is ignored: the error does not leave launch_browser_with_fallback, the
\* other objects of the engine are still closed (at most the one whose
\* close() failed stays open), and the loop goes on to the next engine.
C6_CloseErrorsIgnored ==
    InAcquisition =>
        /\ ~(exc = "CloseError" /\ lbf_result = "raised")
        /\ (lbf_result = "raised" \/ pc = "lbf_next") => OpenObjects(eng) <= 1

----------------------------------------------------------------------------
(* Anti-bot classification (checked under SpecAcquire) *)

\* the two letters are the same up to case
SameLetterIgnoringCase(a, b) == a = b \/ {a, b} = {"c", "C"}

\* text contains phrase as a case-insensitive substring
ContainsIgnoringCase(text, phrase) ==
    \E off \in 0..(Len(text) - Len(phrase)) :
        \A k \in 1..Len(phrase) :
            SameLetterIgnoringCase(text[off + k], phrase[k])

\* text contains one of the configured anti-bot marker phrases
HasAntiBotPhrase(text) ==
    \E i \in 1..Len(ANTI_BOT_PHRASES) :
        ContainsIgnoringCase(text, ANTI_BOT_PHRASES[i])

\* the body text the page served ("" when there is none)
ServedBody == IF page_body = NoBody THEN <<>> ELSE page_body

\* C7 as stated: a navigation result is classified BLOCKED exactly when the
\* title or the body contains a configured anti-bot marker phrase as a
\* case-insensitive substring, and no page classified BLOCKED is returned.
C7_BlockedIffMarkerInTitleOrBody ==
    /\ verdict # "none" =>
           (verdict = "BLOCKED" <=>
                HasAntiBotPhrase(title) \/ HasAntiBotPhrase(ServedBody))
    /\ lbf_result = "session" =>
           ~(HasAntiBotPhrase(title) \/ HasAntiBotPhrase(ServedBody))

\* C7 as amended: BLOCKED exactly when the title contains (ignoring case) an
\* anti-bot phrase or the Cloudflare title marker, or the body contains
\* (ignoring case) an anti-bot phrase; the body is not searched for the
\* Cloudflare title marker.  A page is returned only when classified OK.
C7_BlockedIffMarkerOrCloudflareTitle ==
    LET blocked == \/ HasAntiBotPhrase(title)
                   \/ ContainsIgnoringCase(title, CLOUDFLARE_TITLE)
                   \/ HasAntiBotPhrase(ServedBody)
    IN  /\ verdict # "none" => (verdict = "BLOCKED" <=> blocked)
        /\ lbf_result = "session" => (verdict = "OK" /\ ~blocked)

\* the second engine's page is blocked by a phrase in its body written with a
\* capital letter, inside a longer text
C7_Witness ==
    /\ eng = 2
    /\ verdict = "BLOCKED"
    /\ title = <<"f">>
    /\ page_body = <<"f", "j", "C">>

----------------------------------------------------------------------------
(* Browser lifetime (checked under Spec) *)

AttemptEnded == pc \in {"w_returned", "w_except", "r_cancelled"}

----------------------------------------------------------------------------
(* Reveal loops (checked under Spec) *)

RoundsWithinCaps ==
    /\ pc = "b_scroll" => round_num <= 50
    /\ pc = "b_query" => (round_num >= 1 /\ round_num <= 50)
    /\ pc = "d_scroll" => round_num <= 15
    /\ pc = "d_extract" => round_num = 15

StayingInLoopIsOneMoreRound ==
    (pc \in {"b_scroll", "d_scroll"} /\ pc' = pc) => round_num' = round_num + 1

\* C10: bama's scroll_and_load never performs more than 50 scroll rounds and
\* has left the loop when 50 are done; divar's loop never performs more than
\* 15 rounds and is left normally only after exactly 15.  Every step that
\* stays in a loop is one more round, so both loops end for every sequence of
\* measured sizes.
C10_RevealLoopsBounded ==
    []RoundsWithinCaps /\ [][StayingInLoopIsOneMoreRound]_vars

\* bama's loop was left at the cap of 50 rounds, the measured height having
\* changed in its last round
C10_Witness ==
    /\ pc = "b_query"
    /\ round_num = 50
    /\ stable_rounds = 0

----------------------------------------------------------------------------
(* C11: when scroll_and_load stops before the cap *)

\* the loop has just been left before its 50th round
StoppedBeforeCap == pc = "b_query" /\ round_num >= 1 /\ round_num < 50

\* the last round measured a height other than the round before it, and the
\* loop goes on
LastRoundChanged == pc = "b_scroll" /\ round_num >= 2 /\ unchanged_run = 0

\* C11 (as stated): scroll_and_load stops before the cap exactly at the first
\* round at which the height has been equal to the preceding round's measured
\* height for three consecutive rounds; a round whose height differs resets
\* the count of stable rounds; the loop never stops early with fewer.
C11_StopsAtThreeUnchangedRounds ==
    /\ StoppedBeforeCap => unchanged_run = 3
    /\ pc = "b_scroll" => unchanged_run < 3
    /\ LastRoundChanged => stable_rounds = 0

\* a page measuring 0 in each of the first three rounds: the first round is
\* compared with the initial prev_height = 0
ZeroFromTheStart == round_num = 3 /\ unchanged_run = 2 /\ prev_height = 0

\* C11 (amended): as above, the first round being compared with an initial
\* height of 0, so that a page measuring 0 in rounds 1, 2 and 3 stops the loop
\* at round 3.
C11_StopsAtThreeUnchangedRoundsFromZero ==
    /\ StoppedBeforeCap => (unchanged_run = 3 \/ ZeroFromTheStart)
    /\ pc = "b_scroll" => (unchanged_run < 3 /\ ~ZeroFromTheStart)
    /\ LastRoundChanged => stable_rounds = 0
    /\ (pc = "b_scroll" /\ round_num = 1 /\ prev_height # 0) => stable_rounds = 0

\* the loop stopped before the cap after the height had changed at least once
C11_Witness ==
    /\ StoppedBeforeCap
    /\ round_num > 3
    /\ unchanged_run = 3

----------------------------------------------------------------------------
(* C12, C14, C15: the bama Extraction Mapper (SpecExtract) *)

\* the card has a non-empty title and a price element or a negotiable marker
HasModelAndPriceSource(card) ==
    /\ Strip(OrEmpty(card.title)) # <<>>
    /\ (card.price_elem # NoElement \/ card.negotiable_elem # NoElement)

EveryRecordKept ==
    \A i \in 1..Len(all_data) :
        /\ all_data[i].model # <<>>
        /\ (all_data[i].price # <<>> \/ all_data[i].price_status = "negotiable")

OtherCardsAddNothing ==
    (pc = "b_extract" /\ idx' = idx + 1
        /\ ~HasModelAndPriceSource(cards[idx + 1])) => all_data' = all_data

\* C12: every record the bama mapper appends has a non-empty model and a
\* non-empty price or price_status = negotiable; a card with neither a price
\* element nor a negotiable marker, and a card with an empty link title, add
\* no record.
C12_RetainedRecordsHaveModelAndPrice ==
    []EveryRecordKept /\ [][OtherCardsAddNothing]_vars

\* a card without price element and negotiable marker was skipped, and the
\* card after it was retained
C12_Witness ==
    /\ pc = "b_extract"
    /\ idx = 2
    /\ cards[1].link /\ ~cards[1].raises
    /\ cards[1].price_elem = NoElement /\ cards[1].negotiable_elem = NoElement
    /\ Len(all_data) = 1

\* the raw price text of a card: the text of the price element, else of the
\* negotiable marker
RawPrice(card) ==
    IF card.price_elem # NoElement THEN card.price_elem
    ELSE OrEmpty(card.negotiable_elem)

\* the first card of the page has been dealt with, it has a link and a model
\* and no call on it raised
FirstCardRead ==
    /\ pc = "b_extract"
    /\ idx = 1
    /\ cards[1].link /\ ~cards[1].raises
    /\ Strip(OrEmpty(cards[1].title)) # <<>>

\* C14: the cleaned price is the raw price text without its non-digit
\* characters, and whenever that is empty and the card carries a negotiable
\* marker, the card is retained with the negotiable sentinel as price and
\* price_status = negotiable; for every combination of price element, digits
\* and negotiable marker.
C14_EmptyPriceWithMarkerIsNegotiable ==
    FirstCardRead =>
       LET cleaned == SelectSeq(RawPrice(cards[1]), IsDigit)
       IN  /\ (cleaned # <<>>) =>
                (Len(all_data) = 1 /\ all_data[1].price = cleaned)
           /\ (cleaned = <<>> /\ cards[1].negotiable_elem # NoElement) =>
                /\ Len(all_data) = 1
                /\ all_data[1].price = NEGOTIABLE
                /\ all_data[1].price_status = "negotiable"

\* the records of the cards on which no call raises, in card order
RECURSIVE RecordsOfNonFailing(_)
RecordsOfNonFailing(cs) ==
    IF cs = <<>> THEN <<>>
    ELSE (IF cs[1].raises THEN <<>> ELSE CardRecords(cs[1]))
         \o RecordsOfNonFailing(Tail(cs))

BatchIsNonFailingCards ==
    pc = "b_extract" =>
        /\ idx <= Len(cards)
        /\ all_data = RecordsOfNonFailing(SubSeq(cards, 1, idx))

LoopVisitsEveryCard ==
    pc = "b_extract" =>
        /\ pc' = "b_extract" => idx' = idx + 1
        /\ pc' # "b_extract" => idx = Len(cards)

\* C15: a failure on one card never aborts the batch: the loop goes on to
\* every later card and the batch is exactly the records of the non-failing
\* qualifying cards, in card order.
C15_CardFailureDoesNotAbortBatch ==
    []BatchIsNonFailingCards /\ [][LoopVisitsEveryCard]_vars

\* a call on the first card raised and the second card was retained
C15_Witness ==
    /\ pc = "b_extract"
    /\ idx = 2
    /\ cards[1].raises
    /\ Len(all_data) = 1

----------------------------------------------------------------------------
(* C13: no record with an empty model reaches a saved file *)

NoEmptyModel(rows) == \A i \in 1..Len(rows) : rows[i].model # <<>>

\* C13: for both sites, every row passed to save_to_csv and every row
\* written by it has a non-empty model.
C13_NoEmptyModelSaved ==
    /\ pc \in SavePcs => NoEmptyModel(all_data)
    /\ \A f \in FileNames : NoEmptyModel(files[f])

----------------------------------------------------------------------------
(* C16 - C19: save_to_csv (SpecSave) *)

PrimaryFile == <<"output", prefix>>
BackupFile == <<"backups", prefix>>

\* the call of save_to_csv has just returned the path of the primary file
SaveReturned == pc = "s_call" /\ save_result = "filepath"

\* this step is a call of save_to_csv that returns the path
SaveReturns == pc = "s_save" /\ save_result' = "filepath"

EqualOnKey(r1, r2) ==
    /\ r1.model = r2.model
    /\ r1.year = r2.year
    /\ r1.mileage = r2.mileage
    /\ r1.price = r2.price
    /\ r1.source_url = r2.source_url

Range(rows) == {rows[i] : i \in 1..Len(rows)}

\* C16: the rows written hold exactly one row for each distinct key
\* (model, year, mileage, price, source_url) of the batch, and are in
\* ascending order of model.
C16_DedupOnKeyThenSortByModel ==
    SaveReturned =>
       LET rows == files[PrimaryFile]
       IN  /\ Range(rows) \subseteq Range(all_data)
           /\ \A i \in 1..Len(all_data) :
                 Cardinality({j \in 1..Len(rows) :
                                EqualOnKey(rows[j], all_data[i])}) = 1
           /\ \A i, j \in 1..Len(rows) :
                 i < j => ModelRank(rows[i].model) <= ModelRank(rows[j].model)

\* two records equal on the key and different in description were saved as
\* one row
C16_Witness ==
    /\ SaveReturned
    /\ Len(all_data) = 2
    /\ all_data[1].description # all_data[2].description
    /\ EqualOnKey(all_data[1], all_data[2])
    /\ Len(files[PrimaryFile]) = 1

SaveIsIdempotentAndOverwrites ==
    SaveReturns =>
       \* the batch saved once more changes nothing
       /\ files[PrimaryFile] = SavedRows(all_data) =>
             files'[PrimaryFile] = files[PrimaryFile]
       \* the batch concatenated with itself gives the rows of the batch
       /\ files'[PrimaryFile] = SavedRows(all_data \o all_data)
       \* nothing of an earlier batch is left
       /\ Range(files'[PrimaryFile]) \subseteq Range(all_data)

\* C17: saving B again leaves the rows of one save of B; saving B
\* concatenated with itself gives the rows of saving B; saving another batch
\* later leaves only the rows of that batch.
C17_SaveIdempotentAndOverwriting == [][SaveIsIdempotentAndOverwrites]_vars

\* a batch is being saved over the day's file of a different batch
C17_Witness ==
    /\ pc = "s_save"
    /\ ~MissingKeyColumn(all_data)
    /\ files[PrimaryFile] # <<>>
    /\ Range(files[PrimaryFile]) \cap Range(all_data) = {}

SaveWritesPrimaryAndBackupOnly ==
    SaveReturns =>
       /\ files'[PrimaryFile] # <<>>
       /\ files'[BackupFile] = files'[PrimaryFile]
       /\ \A f \in FileNames :
             f \notin {PrimaryFile, BackupFile} => files'[f] = files[f]

\* C18: a save of a non-empty batch with prefix P writes the primary file
\* output/P_D.csv and the backup file backups/P_D_backup.csv with the same
\* rows, and creates or changes no other file.
C18_WritesPrimaryAndBackupOnly ==
    [][SaveWritesPrimaryAndBackupOnly]_vars

\* bama's files were written while divar's files of an earlier save exist
C18_Witness ==
    /\ SaveReturned
    /\ prefix = "bama"
    /\ files[<<"backups", "bama">>] # <<>>
    /\ files[<<"output", "divar">>] # <<>>
    /\ files[<<"output", "divar">>] # files[<<"output", "bama">>]

EmptyBatchWritesNothing ==
    (pc = "s_save" /\ all_data = <<>>) =>
       /\ files' = files
       /\ save_result' = "None"
       /\ in_try_failure' = "none"

\* C19: a save of an empty batch writes no file, leaves every existing file
\* unchanged, raises no error and returns the 'no file' result.
C19_EmptyBatchWritesNothing == [][EmptyBatchWritesNothing]_vars

\* an empty batch was saved on a day whose primary file exists
C19_Witness ==
    /\ pc = "s_call"
    /\ save_result = "None"
    /\ all_data = <<>>
    /\ files[PrimaryFile] # <<>>

----------------------------------------------------------------------------
(* C20: a site's failure does not stop the runner *)

\* the bama scrape has ended by raising the failure of its last attempt
BamaRaisedAfterRetries ==
    /\ site = "bama"
    /\ "bama" \in finished
    /\ Len(failures) = BAMA_MAX_ATTEMPTS
    /\ IsException(last_exc)

\* C20: in every runner, when the bama scrape ends by raising after its
\* retries are exhausted, the runner does not abort (it goes on to invoke
\* the divar scrape).
C20_SiteFailureDoesNotAbortRunner ==
    BamaRaisedAfterRetries => pc # "r_aborted"

----------------------------------------------------------------------------
(* C21, C22: the end-to-end pipelines *)

\* a divar attempt has extracted records, nothing failed before the save,
\* the files could be written, and the attempt is about to end
DivarAttemptWithRecords ==
    /\ site = "divar"
    /\ pc = "d_finally"
    /\ exc = "none"
    /\ all_data # <<>>
    /\ in_try_failure # "OSError"

\* C21: whenever a divar attempt extracts at least one card and the output
\* directory is writable, the attempt ends with the day's divar primary file
\* written, holding the deduplicated extracted records.
C21_DivarAttemptWritesFile ==
    DivarAttemptWithRecords =>
        /\ in_try_failure = "none"
        /\ files[<<"output", "divar">>] # <<>>
        /\ {files[<<"output", "divar">>][i] :
                i \in 1..Len(files[<<"output", "divar">>])}
             = {all_data[i] : i \in 1..Len(all_data)}

\* C22: the page on which scroll_and_load and the card extraction run shows
\* a document that was classified OK at its most recent navigation.
C22_ExtractsOnlyFromCheckedPage ==
    (site = "bama" /\ pc \in {"b_scroll", "b_query", "b_extract"}) =>
        page_class = "OK"

====
